---- MODULE Spec2Model ----
(***************************************************************************)
(* A model of the dev.to publishing tool of src/devto-test.py:             *)
(* publish_blog_to_devto reads DEVTO_API_KEY, builds the article payload,  *)
(* issues one requests.post and maps the response, or the exception the    *)
(* call raised, to one string.                                             *)
(*                                                                         *)
(* Python values are tagged records ([t |-> "str", v |-> ...]); a text is  *)
(* the sequence of the pieces an f-string joins, so that "the text         *)
(* contains X" is "X is one of its pieces".                                *)
(***************************************************************************)
EXTENDS Integers, Sequences, FiniteSets, TLC

\* How many invocations the host may have in flight at once.
NumProcs == 2

Procs == 1..NumProcs

-----------------------------------------------------------------------------
(* Python values *)

PyNone == [t |-> "none"]
PyStr(s) == [t |-> "str", v |-> s]
PyList(l) == [t |-> "list", v |-> l]
PyBool(b) == [t |-> "bool", v |-> b]
PyDict(d) == [t |-> "dict", v |-> d]

\* bool(x), as `if x:` and `not x` evaluate it.
Truthy(x) ==
    CASE x.t = "none" -> FALSE
      [] x.t = "str"  -> x.v # ""
      [] x.t = "list" -> x.v # <<>>
      [] x.t = "bool" -> x.v
      [] x.t = "dict" -> DOMAIN x.v # {}

\* str(x), as an f-string's {x} formats it.
Str(x) ==
    CASE x.t = "none" -> "None"
      [] x.t = "str"  -> x.v
      [] x.t = "bool" -> IF x.v THEN "True" ELSE "False"
      [] OTHER        -> "<object>"

\* d[k] = v on a dict held as a function.
Put(d, k, v) == [x \in DOMAIN d \cup {k} |-> IF x = k THEN v ELSE d[x]]

\* d.get(k, default)
DictGet(d, k, default) == IF k \in DOMAIN d.v THEN d.v[k] ELSE default

-----------------------------------------------------------------------------
(* The environment and the arguments *)

GoodKey == "k3y"
\* A value with leading whitespace: no valid HTTP header value.
BadKey == " k3y"

\* What os.environ may hold for DEVTO_API_KEY: unset, empty, or a value.
EnvValues == {PyNone, PyStr(""), PyStr(GoodKey), PyStr(BadKey)}

OptionalFields == {"tags", "series", "canonical_url", "cover_image"}

\* The tool's arguments: each optional field as None, empty, or a value.
Requests ==
    [title : {PyStr("Hello")},
     body_markdown : {PyStr("# text")},
     tags : {PyNone, PyList(<<>>), PyList(<<"python">>)},
     published : {PyBool(FALSE), PyBool(TRUE)},
     series : {PyNone, PyStr(""), PyStr("a series")},
     canonical_url : {PyNone, PyStr(""), PyStr("https://blog.example/p")},
     cover_image : {PyNone, PyStr(""), PyStr("https://img.example/c.png")}]

DEVTO_API_URL == "https://dev.to/api/articles"

Created == 201


-----------------------------------------------------------------------------
(* What requests.post can hand back *)

Exc(cls, isReq, msg) == [cls |-> cls, isRequestException |-> isReq, msg |-> msg]
Raise(e) == [kind |-> "raise", exc |-> e, log |-> <<>>]
Return(text, lines) == [kind |-> "return", text |-> text, log |-> lines]
LogLine(level, text) == [level |-> level, text |-> text]

Statuses == {200, 201, 202, 422, 500}

Reason(status) ==
    CASE status = 200 -> "OK"
      [] status = 201 -> "Created"
      [] status = 202 -> "Accepted"
      [] status = 422 -> "Unprocessable Entity"
      [] status = 500 -> "Internal Server Error"
      [] OTHER        -> "Unknown"

ArticleUrl == "https://dev.to/u/hello-1a2b"
ErrorMsg == "Title has already been used"

\* A response's content: JSON (an object, or another JSON value such as a
\* list), or no JSON at all. response.json() on the latter raises
\* requests' JSONDecodeError, a RequestException in requests >= 2.27 and a
\* plain ValueError before: both builds are kept.
Bodies ==
    {[json |-> TRUE, value |-> PyDict("url" :> PyStr(ArticleUrl))],
     [json |-> TRUE, value |-> PyDict("error" :> PyStr(ErrorMsg))],
     [json |-> TRUE, value |-> PyDict("url" :> PyStr(ArticleUrl) @@ "error" :> PyStr(ErrorMsg))],
     [json |-> TRUE, value |-> PyDict([k \in {} |-> PyNone])],
     [json |-> TRUE, value |-> PyList(<<>>)],
     [json |-> FALSE, raises |-> "JSONDecodeError"],
     [json |-> FALSE, raises |-> "ValueError"]}

Responses == [kind : {"response"}, status : Statuses, body : Bodies]

\* The call never got a response: the connection failed or timed out.
NetworkFailures ==
    {Raise(Exc("ConnectionError", TRUE, <<"Connection refused">>)),
     Raise(Exc("Timeout", TRUE, <<"Read timed out">>))}

\* requests validates header values before it sends anything and raises
\* InvalidHeader; from 2.28 on the message quotes the value, before that it
\* named the header only.
InvalidHeaderFailures(headers) ==
    {Raise(Exc("InvalidHeader", TRUE,
               <<"Invalid leading whitespace, reserved character(s), or return character(s) in header value: ",
                 "'", Str(headers["api-key"]), "'">>)),
     Raise(Exc("InvalidHeader", TRUE,
               <<"Invalid return character or leading space in header: ", "api-key">>))}

ValidHeaderValue(v) == v # PyStr(BadKey)

\* Every way the call of line 80 can end, for the request it was given.
PostOutcomes(req) ==
    IF ValidHeaderValue(req.headers["api-key"])
    THEN Responses \cup NetworkFailures
    ELSE InvalidHeaderFailures(req.headers)

-----------------------------------------------------------------------------
(* publish_blog_to_devto, lines 45-76: credential, headers, payload *)

\* Faulty variant: `if devto_api_key == "":` lets an unset variable through.
CredentialMissingOnlyEmpty(k) == k = PyStr("")

CredentialMissing(k) == ~Truthy(k)

ConfigErrorText ==
    <<"Error: DEVTO_API_KEY environment variable is not set. Please set it to publish articles.">>

BuildHeaders(k) ==
    ("Content-Type" :> PyStr("application/json")) @@ ("api-key" :> k)

\* Faulty variant: `if tags is not None:` sends empty strings and lists.
AddIfNotNone(d, k, v) == IF v # PyNone THEN Put(d, k, v) ELSE d

AddIfSupplied(d, k, v) == IF Truthy(v) THEN Put(d, k, v) ELSE d

BuildArticleData(a) ==
    LET base == ("title" :> a.title) @@ ("body_markdown" :> a.body_markdown)
                @@ ("published" :> a.published)
        d1 == AddIfSupplied(base, "tags", a.tags)
        d2 == AddIfSupplied(d1, "series", a.series)
        d3 == AddIfSupplied(d2, "canonical_url", a.canonical_url)
        d4 == AddIfSupplied(d3, "cover_image", a.cover_image)
    IN  [article |-> d4]

\* Faulty variant: the request is posted a second time.
OutboundCallsTwice(headers, data) ==
    <<[url |-> DEVTO_API_URL, headers |-> headers, json |-> data],
      [url |-> DEVTO_API_URL, headers |-> headers, json |-> data]>>

\* The calls of requests.post one invocation makes: the one of line 80.
OutboundCalls(headers, data) ==
    <<[url |-> DEVTO_API_URL, headers |-> headers, json |-> data]>>

-----------------------------------------------------------------------------
(* publish_blog_to_devto, lines 78-100: the response and the handlers *)

SuccessText(url) == <<"Article published successfully! URL: ", Str(url)>>

FailureText(status, err) ==
    <<"Failed to publish article. Status code: ", ToString(status), ", Error: ", Str(err)>>

\* Faulty variant: the failure's message is dropped.
TransportTextGeneric(e) == <<"An error occurred during the API request: ", "request failed">>

TransportText(e) == <<"An error occurred during the API request: ">> \o e.msg

UnexpectedText(e) == <<"An unexpected error occurred: ">> \o e.msg

\* response.raise_for_status(): an HTTPError for every 4xx and 5xx.
raise_for_status(resp) ==
    IF resp.status >= 400 /\ resp.status < 500
    THEN Raise(Exc("HTTPError", TRUE,
                   <<ToString(resp.status), " Client Error: ", Reason(resp.status),
                     " for url: ", DEVTO_API_URL>>))
    ELSE IF resp.status >= 500 /\ resp.status < 600
    THEN Raise(Exc("HTTPError", TRUE,
                   <<ToString(resp.status), " Server Error: ", Reason(resp.status),
                     " for url: ", DEVTO_API_URL>>))
    ELSE [kind |-> "ok"]

\* response.json()
response_json(resp) ==
    IF resp.body.json
    THEN [kind |-> "value", value |-> resp.body.value]
    ELSE Raise(Exc(resp.body.raises, resp.body.raises = "JSONDecodeError",
                   <<"Expecting value: line 1 column 1 (char 0)">>))

NoGetAttribute ==
    Raise(Exc("AttributeError", FALSE, <<"'list' object has no attribute 'get'">>))

\* Faulty variant: success is looked for under 200.
IsCreatedOk(status) == status = 200

IsCreated(status) == status = Created

\* Faulty variant: response_json["url"]: a missing key is a KeyError.
OnCreatedStrict(title, body) ==
    IF body.t # "dict" THEN NoGetAttribute
    ELSE IF "url" \notin DOMAIN body.v
    THEN Raise(Exc("KeyError", FALSE, <<"'url'">>))
    ELSE Return(SuccessText(body.v["url"]),
                <<LogLine("INFO", <<"Article '", Str(title), "' published successfully! URL: ",
                                    Str(body.v["url"])>>)>>)

\* Lines 87-89.
OnCreated(title, body) ==
    IF body.t # "dict" THEN NoGetAttribute
    ELSE LET article_url == DictGet(body, "url", PyNone)
         IN  Return(SuccessText(article_url),
                    <<LogLine("INFO", <<"Article '", Str(title), "' published successfully! URL: ",
                                        Str(article_url)>>)>>)

\* Lines 91-93.
OnOtherStatus(title, status, body) ==
    IF body.t # "dict" THEN NoGetAttribute
    ELSE LET error_message == DictGet(body, "error", PyStr("Unknown error"))
         IN  Return(FailureText(status, error_message),
                    <<LogLine("ERROR", <<"Failed to publish article '", Str(title),
                                         "'. Status code: ", ToString(status), ", Error: ",
                                         Str(error_message)>>)>>)

\* The try block, lines 80-93, given how the call of line 80 ended.
TryPost(title, o) ==
    IF o.kind = "raise" THEN o
    ELSE LET s == raise_for_status(o)
         IN  IF s.kind = "raise" THEN s
             ELSE LET j == response_json(o)
                  IN  IF j.kind = "raise" THEN j
                      ELSE IF IsCreated(o.status)
                           THEN OnCreated(title, j.value)
                           ELSE OnOtherStatus(title, o.status, j.value)

\* Faulty variant: only `except requests.exceptions.RequestException`.
ExceptHandlersNoCatchAll(r) ==
    IF r.kind # "raise" THEN r
    ELSE IF r.exc.isRequestException
    THEN Return(TransportText(r.exc),
                <<LogLine("ERROR", <<"Network or API request error: ">> \o r.exc.msg)>>)
    ELSE r

\* The except clauses, lines 95-100.
ExceptHandlers(r) ==
    IF r.kind # "raise" THEN r
    ELSE IF r.exc.isRequestException
    THEN Return(TransportText(r.exc),
                <<LogLine("ERROR", <<"Network or API request error: ">> \o r.exc.msg)>>)
    ELSE Return(UnexpectedText(r.exc),
                <<LogLine("ERROR", <<"An unexpected error occurred: ">> \o r.exc.msg)>>)

\* Lines 78-100 as a whole.
AfterPost(title, o) == ExceptHandlers(TryPost(title, o))

Categories == {"Success", "ApiError", "TransportError", "ConfigError", "UnexpectedError"}

\* The outcome category a returned text belongs to, by how it starts.
HasCategory(text, c) ==
    CASE c = "Success"         -> text[1] = SuccessText(PyNone)[1]
      [] c = "ApiError"        -> text[1] = FailureText(0, PyNone)[1]
      [] c = "TransportError"  -> text[1] = TransportText(Exc("", TRUE, <<>>))[1]
      [] c = "ConfigError"     -> text = ConfigErrorText
      [] c = "UnexpectedError" -> text[1] = UnexpectedText(Exc("", FALSE, <<>>))[1]

CategoriesOf(r) ==
    IF r.kind = "return" THEN {c \in Categories : HasCategory(r.text, c)} ELSE {}


-----------------------------------------------------------------------------
(* The state *)

VARIABLES
    env,            \* os.environ's DEVTO_API_KEY: PyNone when unset
    pc,             \* per invocation slot: "idle", "posting", "done"
    args,           \* the arguments of the invocation in flight
    devto_api_key,  \* its local of line 45
    sent,           \* the requests.post calls it has made
    outcome,        \* how its call of line 80 ended
    result,         \* what it returned (or raised) to its caller
    log,            \* the lines it logged
    seenEnv,        \* history: the environment's value when it started
    before,         \* history: the categories returned before it started
    returned        \* history: the categories returned so far

vars == <<env, pc, args, devto_api_key, sent, outcome, result, log, seenEnv, before, returned>>

NoFrame == [t |-> "undefined"]
NoOutcome == [kind |-> "none"]
NoResult == [kind |-> "none"]

\* What the caller gets of r: the returned string, or the exception raised.
ToCaller(r) ==
    IF r.kind = "return" THEN [kind |-> "return", text |-> r.text]
    ELSE [kind |-> "raise", exc |-> r.exc]

\* The categories the history keeps.
Tracked == {"Success", "ConfigError"}

\* Faulty variant: the key of an earlier request is kept and used again.
os_getenv_cached ==
    IF \E q \in Procs : sent[q] # <<>>
    THEN sent[CHOOSE q \in Procs : sent[q] # <<>>][1].headers["api-key"]
    ELSE env

\* os.getenv("DEVTO_API_KEY")
os_getenv == env

Init ==
    /\ env \in EnvValues
    /\ pc = [p \in Procs |-> "idle"]
    /\ args = [p \in Procs |-> NoFrame]
    /\ devto_api_key = [p \in Procs |-> NoFrame]
    /\ sent = [p \in Procs |-> <<>>]
    /\ outcome = [p \in Procs |-> NoOutcome]
    /\ result = [p \in Procs |-> NoResult]
    /\ log = [p \in Procs |-> <<>>]
    /\ seenEnv = [p \in Procs |-> NoFrame]
    /\ before = [p \in Procs |-> {}]
    /\ returned = {}

\* Something outside the tool sets or unsets the variable.
SetEnv(v) ==
    /\ env # v
    /\ env' = v
    /\ UNCHANGED <<pc, args, devto_api_key, sent, outcome, result, log, seenEnv, before, returned>>

\* Lines 41-80: the host calls the tool with arguments a; the call either
\* returns the configuration error at once or is left blocked in requests.post.
\* One step: after line 45 the lines up to the call read locals only.
Invoke(p, a) ==
    /\ pc[p] # "posting"
    /\ LET k == os_getenv
           line41 == LogLine("INFO", <<"Attempting to publish blog post: '", Str(a.title),
                                       "' to dev.to">>)
       IN  IF CredentialMissing(k)
           THEN /\ pc' = [pc EXCEPT ![p] = "done"]
                /\ args' = [args EXCEPT ![p] = NoFrame]
                /\ devto_api_key' = [devto_api_key EXCEPT ![p] = NoFrame]
                /\ sent' = [sent EXCEPT ![p] = <<>>]
                /\ result' = [result EXCEPT ![p] = ToCaller(Return(ConfigErrorText, <<>>))]
                /\ log' = [log EXCEPT ![p] =
                             <<line41,
                               LogLine("ERROR", <<"DEVTO_API_KEY environment variable not set.">>)>>]
                /\ returned' = returned \cup {"ConfigError"}
           ELSE /\ pc' = [pc EXCEPT ![p] = "posting"]
                /\ args' = [args EXCEPT ![p] = a]
                /\ devto_api_key' = [devto_api_key EXCEPT ![p] = k]
                /\ sent' = [sent EXCEPT ![p] = OutboundCalls(BuildHeaders(k), BuildArticleData(a))]
                /\ result' = [result EXCEPT ![p] = NoResult]
                /\ log' = [log EXCEPT ![p] = <<line41>>]
                /\ returned' = returned
    /\ outcome' = [outcome EXCEPT ![p] = NoOutcome]
    /\ seenEnv' = [seenEnv EXCEPT ![p] = env]
    /\ before' = [before EXCEPT ![p] = returned]
    /\ UNCHANGED env

\* Lines 80-100: the call of line 80 ends as o, and the invocation returns.
Complete(p, o) ==
    /\ pc[p] = "posting"
    /\ o \in PostOutcomes(sent[p][Len(sent[p])])
    /\ LET r == AfterPost(args[p].title, o)
       IN  /\ result' = [result EXCEPT ![p] = ToCaller(r)]
           /\ log' = [log EXCEPT ![p] = log[p] \o r.log]
           /\ returned' = returned \cup (CategoriesOf(r) \cap Tracked)
    /\ pc' = [pc EXCEPT ![p] = "done"]
    /\ outcome' = [outcome EXCEPT ![p] = o]
    /\ args' = [args EXCEPT ![p] = NoFrame]
    /\ devto_api_key' = [devto_api_key EXCEPT ![p] = NoFrame]
    /\ UNCHANGED <<env, sent, seenEnv, before>>

AllOutcomes ==
    Responses \cup NetworkFailures
        \cup UNION {InvalidHeaderFailures(BuildHeaders(k)) : k \in {e \in EnvValues : Truthy(e)}}

\* The host runs one call at a time (a synchronous tool on the server's one
\* loop), while the environment may change under it at any moment.
Next ==
    \/ \E v \in EnvValues : SetEnv(v)
    \/ \E a \in Requests : Invoke(1, a)
    \/ \E o \in AllOutcomes : Complete(1, o)

Spec == Init /\ [][Next]_vars

\* The host dispatches calls concurrently, each in its own slot; the
\* arguments and the outcomes are cut to one of each kind.
ConcRequests ==
    {a \in Requests : /\ a.published = PyBool(FALSE)
                      /\ a.tags = PyNone /\ a.series = PyNone
                      /\ a.canonical_url = PyNone /\ a.cover_image = PyNone}

ConcEnvValues == {PyNone, PyStr(""), PyStr(GoodKey)}

ConcOutcomes ==
    {o \in Responses :
        \/ o.status = 201 /\ o.body = [json |-> TRUE, value |-> PyDict("url" :> PyStr(ArticleUrl))]
        \/ o.status = 200 /\ o.body = [json |-> TRUE, value |-> PyDict("error" :> PyStr(ErrorMsg))]
        \/ o.status = 422 /\ o.body = [json |-> TRUE, value |-> PyDict("error" :> PyStr(ErrorMsg))]
        \/ o.status = 201 /\ o.body = [json |-> TRUE, value |-> PyList(<<>>)]}
    \cup {Raise(Exc("ConnectionError", TRUE, <<"Connection refused">>))}

InitConcurrent == Init /\ env \in ConcEnvValues

NextConcurrent ==
    \/ \E v \in ConcEnvValues : SetEnv(v)
    \/ \E p \in Procs : \E a \in ConcRequests : Invoke(p, a)
    \/ \E p \in Procs : \E o \in ConcOutcomes : Complete(p, o)

SpecConcurrent == InitConcurrent /\ [][NextConcurrent]_vars


-----------------------------------------------------------------------------
(* The claims *)

Done(p) == pc[p] = "done"

\* The invocation's call of line 80 got a response whose content is a JSON object.
GotObject(p) ==
    /\ outcome[p].kind = "response"
    /\ outcome[p].body.json
    /\ outcome[p].body.value.t = "dict"

\* Some piece of the text is exactly s.
Mentions(text, s) == \E i \in DOMAIN text : text[i] = s

\* Sequence m occurs in text as consecutive pieces.
ContainsSeq(text, m) ==
    \E i \in 0..(Len(text) - Len(m)) : SubSeq(text, i + 1, i + Len(m)) = m

\* C1: every invocation that has ended has returned one string, of exactly
\* one outcome category; nothing was raised to the caller.
C1_OneStringNeverRaises ==
    \A p \in Procs :
        Done(p) => /\ result[p].kind = "return"
                   /\ Cardinality(CategoriesOf(result[p])) = 1

\* An invocation ended by the catch-all: a fault raised while the response
\* was processed came back as the UnexpectedError string.
C1_Witness ==
    \E p \in Procs :
        /\ Done(p)
        /\ outcome[p].kind = "response"
        /\ CategoriesOf(result[p]) = {"UnexpectedError"}

\* C2: an invocation that found DEVTO_API_KEY unset has made no call of
\* requests.post and returned the configuration error string.
C2_NoCallWithoutCredential ==
    \A p \in Procs :
        Done(p) /\ seenEnv[p] = PyNone
            => /\ sent[p] = <<>>
               /\ result[p].kind = "return"
               /\ result[p].text =
                    <<"Error: DEVTO_API_KEY environment variable is not set. Please set it to publish articles.">>

C2_Witness ==
    \E p \in Procs : Done(p) /\ seenEnv[p] = PyNone /\ Len(log[p]) = 2

\* C3: a 201 response whose JSON object holds url X yields the Success
\* string, and X is in it.
C3_SuccessCarriesUrl ==
    \A p \in Procs :
        Done(p) /\ GotObject(p) /\ outcome[p].status = 201
                /\ "url" \in DOMAIN outcome[p].body.value.v
            => /\ result[p].kind = "return"
               /\ CategoriesOf(result[p]) = {"Success"}
               /\ Mentions(result[p].text, outcome[p].body.value.v["url"].v)

C3_Witness ==
    \E p \in Procs :
        /\ Done(p) /\ GotObject(p) /\ outcome[p].status = 201
        /\ "url" \in DOMAIN outcome[p].body.value.v
        /\ Mentions(result[p].text, ArticleUrl)

\* C4, as claimed: every response with a status other than 201 and a JSON
\* object as content yields the ApiError string, with the status code and
\* the object's error field (or "Unknown error") in it.
C4_ApiErrorForEveryOtherStatus ==
    \A p \in Procs :
        Done(p) /\ GotObject(p) /\ outcome[p].status # 201
            => /\ result[p].kind = "return"
               /\ CategoriesOf(result[p]) = {"ApiError"}
               /\ Mentions(result[p].text, ToString(outcome[p].status))
               /\ Mentions(result[p].text,
                           IF "error" \in DOMAIN outcome[p].body.value.v
                           THEN outcome[p].body.value.v["error"].v
                           ELSE "Unknown error")

\* C5: when requests.post raised a network-level failure, the invocation
\* returned the TransportError string with the failure's message in it.
C5_TransportErrorCarriesMessage ==
    \A p \in Procs :
        Done(p) /\ outcome[p].kind = "raise"
            => /\ result[p].kind = "return"
               /\ CategoriesOf(result[p]) = {"TransportError"}
               /\ ContainsSeq(result[p].text, outcome[p].exc.msg)

C5_Witness ==
    \E p \in Procs :
        /\ Done(p)
        /\ outcome[p].kind = "raise"
        /\ outcome[p].exc.cls = "ConnectionError"
        /\ Mentions(result[p].text, "Connection refused")

\* C6: the payload handed to requests.post holds title, body_markdown and
\* published as given, and each optional field exactly when the caller's
\* value is truthy, then with that value; None is never sent.
C6_PayloadFields ==
    \A p \in Procs :
        pc[p] = "posting" =>
            \A i \in DOMAIN sent[p] :
                LET art == sent[p][i].json.article
                    a == args[p]
                IN  /\ {"title", "body_markdown", "published"} \subseteq DOMAIN art
                    /\ DOMAIN art \subseteq {"title", "body_markdown", "published"} \cup OptionalFields
                    /\ art["title"] = a.title
                    /\ art["body_markdown"] = a.body_markdown
                    /\ art["published"] = a.published
                    /\ \A f \in OptionalFields :
                          /\ f \in DOMAIN art <=> Truthy(a[f])
                          /\ f \in DOMAIN art => art[f] = a[f]
                    /\ \A f \in DOMAIN art : art[f] # PyNone

\* A request in flight with published false, one optional field given and
\* the others given as None, empty string and empty list.
C6_Witness ==
    \E p \in Procs :
        /\ pc[p] = "posting"
        /\ args[p].published = PyBool(FALSE)
        /\ args[p].tags = PyList(<<>>)
        /\ args[p].series = PyStr("")
        /\ args[p].canonical_url = PyNone
        /\ Truthy(args[p].cover_image)
        /\ DOMAIN sent[p][1].json.article = {"title", "body_markdown", "published", "cover_image"}

\* Python value v is, or holds, the string s.
HoldsString(v, s) ==
    \/ v = PyStr(s)
    \/ v.t = "list" /\ \E i \in DOMAIN v.v : v.v[i] = s

\* C7, as claimed: the credential an invocation read is in the api-key
\* header of its request and nowhere else: not in the URL, not in the JSON
\* body, in no log line and not in the returned string.
C7_CredentialOnlyInHeader ==
    \A p \in Procs :
        pc[p] # "idle" /\ Truthy(seenEnv[p]) =>
            LET s == seenEnv[p].v
            IN  /\ \A i \in DOMAIN sent[p] :
                      /\ sent[p][i].headers["api-key"] = seenEnv[p]
                      /\ sent[p][i].headers["Content-Type"] # seenEnv[p]
                      /\ sent[p][i].url # s
                      /\ \A f \in DOMAIN sent[p][i].json.article :
                            ~HoldsString(sent[p][i].json.article[f], s)
                /\ \A i \in DOMAIN log[p] : ~Mentions(log[p][i].text, s)
                /\ result[p].kind = "return" => ~Mentions(result[p].text, s)

\* C8: an invocation makes one call of requests.post when it read a
\* credential and none when it did not, and never a second one, whatever
\* the first came to.
C8_AtMostOnePost ==
    \A p \in Procs :
        /\ Len(sent[p]) <= 1
        /\ pc[p] # "idle" => Len(sent[p]) = (IF Truthy(seenEnv[p]) THEN 1 ELSE 0)
        /\ \A i \in DOMAIN sent[p] : sent[p][i].url = DEVTO_API_URL

\* An invocation whose one call failed has returned, with that one call made.
C8_Witness ==
    \E p \in Procs :
        /\ Done(p)
        /\ Len(sent[p]) = 1
        /\ outcome[p].kind = "raise"
        /\ CategoriesOf(result[p]) = {"TransportError"}

\* C9: a 201 response whose JSON object has no url yields the Success
\* string with the missing URL formatted as None.
C9_SuccessWithoutUrl ==
    \A p \in Procs :
        Done(p) /\ GotObject(p) /\ outcome[p].status = 201
                /\ "url" \notin DOMAIN outcome[p].body.value.v
            => /\ result[p].kind = "return"
               /\ result[p].text = <<"Article published successfully! URL: ", "None">>

C9_Witness ==
    \E p \in Procs :
        /\ Done(p) /\ GotObject(p) /\ outcome[p].status = 201
        /\ "url" \notin DOMAIN outcome[p].body.value.v
        /\ CategoriesOf(result[p]) = {"Success"}

\* C10: whatever other invocations did before or do meanwhile, an
\* invocation that started with the variable unset or empty has returned the
\* configuration error without a call, and one that started with it set has
\* made its call with exactly the value the variable had then, and does
\* not return the configuration error.
C10_CredentialReadAfresh ==
    \A p \in Procs :
        pc[p] # "idle" =>
            IF Truthy(seenEnv[p])
            THEN /\ Len(sent[p]) = 1
                 /\ sent[p][1].headers["api-key"] = seenEnv[p]
                 /\ Done(p) => CategoriesOf(result[p]) # {"ConfigError"}
            ELSE /\ Done(p)
                 /\ sent[p] = <<>>
                 /\ CategoriesOf(result[p]) = {"ConfigError"}

\* One invocation returned the configuration error after another had
\* succeeded, while a third start, after a configuration error, has its call
\* in flight although the variable has meanwhile been unset again.
C10_Witness ==
    \E p, q \in Procs :
        /\ p # q
        /\ Done(p) /\ CategoriesOf(result[p]) = {"ConfigError"} /\ "Success" \in before[p]
        /\ pc[q] = "posting" /\ "ConfigError" \in before[q]
        /\ env = PyNone

====
